---- MODULE Spec2Model ----
(***************************************************************************)
(* AIVulnAgent: the pending-rebuild correlation store                      *)
(* (services/pendingRebuilds.ts) and the remediation agent graph           *)
(* (agents/agentMap.ts, agents/agentNodes.ts, agents/state.ts).            *)
(*                                                                         *)
(* Node.js runs every handler to completion on one thread, so each         *)
(* synchronous function of the store is one atomic action; each graph node *)
(* is one action as well (its awaits only reach external collaborators,    *)
(* whose answers are drawn nondeterministically).                          *)
(***************************************************************************)
EXTENDS Integers, Sequences, FiniteSets, TLC

\* ------------------------------------------------------------------------
\* Bounds
\* ------------------------------------------------------------------------
\* number of registerPendingRebuild calls in one behaviour
MaxRegistrations == 3

\* ------------------------------------------------------------------------
\* Value universes
\* ------------------------------------------------------------------------
VulnIds == {"vuln-1", "vuln-2"}

TargetCve == "CVE-2023-4911"

CveIds == {TargetCve, "CVE-2024-9999"}

\* the CVE id of each stored vulnerability record
CveOf == [v \in VulnIds |-> IF v = "vuln-1" THEN TargetCve ELSE "CVE-2024-9999"]

\* pendingRebuilds.ts:18  30 * 60 * 1000
REBUILD_TIMEOUT_MS == 1800000

\* RebuildScanResult (types/index.ts), reduced to the fields the code reads
ScanResults == [buildSuccess : BOOLEAN, vulnerabilities : SUBSET CveIds]

\* the payloads the webhook delivers in the behaviours explored
CallbackResults ==
  { [buildSuccess |-> TRUE,  vulnerabilities |-> {}],
    [buildSuccess |-> TRUE,  vulnerabilities |-> {TargetCve}],
    [buildSuccess |-> FALSE, vulnerabilities |-> {}] }

\* JavaScript null / "no value yet"
NULL == [isNull |-> TRUE]

NoError == [message |-> ""]

\* new Error("Superseded by new rebuild")
SupersededError == [message |-> "Superseded by new rebuild"]

\* new Error(`Rebuild timed out after ${REBUILD_TIMEOUT_MS / 1000}s for ${cveId}`)
TimeoutError(cveId) ==
  [message |-> "Rebuild timed out", seconds |-> REBUILD_TIMEOUT_MS \div 1000, cveId |-> cveId]

\* nothing has been served by either route
NoneServed == [invoke |-> NULL, stream |-> NULL]

VARIABLES
  pending,    \* Map<string, PendingRebuild>: set of [vulnId, eid] pairs
  handles,    \* one record per registration: closure, promise and timer
  removals,   \* history: every pending.delete that removed an entry
  lastOp,     \* history: the last store operation and what it found
  state,      \* RemediationState of the run (NULL while no run exists)
  node,       \* the graph node that runs next
  visited,    \* history: the nodes executed, in order
  calls,      \* history: calls made to the fix store and the remediation action gateway
  pipeline,   \* the external rebuild workflow of the run
  response,   \* history: what the last llm.invoke call gave back
  collaborators, \* what each collaborator gives back while two routes are compared
  served,     \* what the two remediation routes have executed and sent
  vulnerabilities \* Map<string, Vulnerability>: the stored records, one per id

storeVars == <<pending, handles, removals, lastOp>>

engineVars == <<state, node, visited, calls, pipeline, response>>

routeVars == <<collaborators, served, vulnerabilities>>

vars == <<pending, handles, removals, lastOp, state, node, visited, calls, pipeline,
         response, collaborators, served, vulnerabilities>>

\* ------------------------------------------------------------------------
\* Map<string, PendingRebuild>
\* ------------------------------------------------------------------------
MapHas(m, k) == \E x \in m : x.vulnId = k

MapGet(m, k) == (CHOOSE x \in m : x.vulnId = k).eid

\* a delete that empties the map
MapDeleteAll(m, k) == {}

MapDelete(m, k) == {x \in m : x.vulnId # k}

MapSet(m, k, e) == {x \in m : x.vulnId # k} \cup {[vulnId |-> k, eid |-> e]}

\* ------------------------------------------------------------------------
\* Promise and timer primitives
\* ------------------------------------------------------------------------
\* resolve(result) of a promise: settles it once, later calls are ignored
PromiseResolve(h, result) ==
  IF h.promise = "pending"
  THEN [h EXCEPT !.promise = "fulfilled", !.result = result, !.settleCalls = @ + 1]
  ELSE [h EXCEPT !.settleCalls = @ + 1]

\* reject(error) of a promise
PromiseReject(h, error) ==
  IF h.promise = "pending"
  THEN [h EXCEPT !.promise = "rejected", !.error = error, !.settleCalls = @ + 1]
  ELSE [h EXCEPT !.settleCalls = @ + 1]

\* clearTimeout(timeoutId): a timer that has not fired never fires
ClearTimeout(h) ==
  IF h.timer = "armed" THEN [h EXCEPT !.timer = "cleared"] ELSE h

\* the closure created by one registerPendingRebuild call
NewHandle(vulnId, cveId) ==
  [vulnId |-> vulnId, cveId |-> cveId, promise |-> "pending", result |-> NULL,
   error |-> NoError, settleCalls |-> 0, timer |-> "armed"]

\* ------------------------------------------------------------------------
\* registerPendingRebuild
\* ------------------------------------------------------------------------
\* lines 31-37: clean up any existing entry for this vulnId
SupersedeExistingNoReject(m, hs, rs, vulnId) ==
  IF MapHas(m, vulnId)
  THEN LET old == MapGet(m, vulnId) IN
       [pending  |-> MapDelete(m, vulnId),
        handles  |-> [hs EXCEPT ![old] = ClearTimeout(@)],
        removals |-> Append(rs, [eid |-> old, cause |-> "supersession", by |-> old])]
  ELSE [pending |-> m, handles |-> hs, removals |-> rs]

\* supersession that leaves the displaced entry's timer running
SupersedeExistingNoClear(m, hs, rs, vulnId) ==
  IF MapHas(m, vulnId)
  THEN LET old == MapGet(m, vulnId) IN
       [pending  |-> MapDelete(m, vulnId),
        handles  |-> [hs EXCEPT ![old] = PromiseReject(@, SupersededError)],
        removals |-> Append(rs, [eid |-> old, cause |-> "supersession", by |-> old])]
  ELSE [pending |-> m, handles |-> hs, removals |-> rs]

\* supersession that fails the displaced waiter with the timeout error
SupersedeExistingAsTimeout(m, hs, rs, vulnId) ==
  IF MapHas(m, vulnId)
  THEN LET old == MapGet(m, vulnId) IN
       [pending  |-> MapDelete(m, vulnId),
        handles  |-> [hs EXCEPT ![old] = PromiseReject(ClearTimeout(@), TimeoutError(@.cveId))],
        removals |-> Append(rs, [eid |-> old, cause |-> "supersession", by |-> old])]
  ELSE [pending |-> m, handles |-> hs, removals |-> rs]

SupersedeExisting(m, hs, rs, vulnId) ==
  IF MapHas(m, vulnId)
  THEN LET old == MapGet(m, vulnId) IN
       [pending  |-> MapDelete(m, vulnId),
        handles  |-> [hs EXCEPT ![old] = PromiseReject(ClearTimeout(@), SupersededError)],
        removals |-> Append(rs, [eid |-> old, cause |-> "supersession", by |-> old])]
  ELSE [pending |-> m, handles |-> hs, removals |-> rs]

\* register that also hands the superseded error to the promise it returns
registerPendingRebuildRejectsCaller(vulnId, cveId) ==
  /\ Len(handles) < MaxRegistrations
  /\ LET c == SupersedeExisting(pending, handles, removals, vulnId)
         new == Len(handles) + 1
         waiter == IF MapHas(pending, vulnId)
                   THEN PromiseReject(NewHandle(vulnId, cveId), SupersededError)
                   ELSE NewHandle(vulnId, cveId)
     IN /\ handles' = Append(c.handles, waiter)
        /\ pending' = MapSet(c.pending, vulnId, new)
        /\ removals' = c.removals
  /\ lastOp' = [op |-> "register", vulnId |-> vulnId, found |-> MapHas(pending, vulnId)]
  /\ UNCHANGED <<engineVars, routeVars>>

\* a store kept as a list: push without looking for an existing entry
registerPendingRebuildPush(vulnId, cveId) ==
  /\ Len(handles) < MaxRegistrations
  /\ handles' = Append(handles, NewHandle(vulnId, cveId))
  /\ pending' = pending \cup {[vulnId |-> vulnId, eid |-> Len(handles) + 1]}
  /\ removals' = removals
  /\ lastOp' = [op |-> "register", vulnId |-> vulnId, found |-> MapHas(pending, vulnId)]
  /\ UNCHANGED <<engineVars, routeVars>>

registerPendingRebuild(vulnId, cveId) ==
  /\ Len(handles) < MaxRegistrations
  /\ LET c == SupersedeExisting(pending, handles, removals, vulnId)
         new == Len(handles) + 1
     IN /\ handles' = Append(c.handles, NewHandle(vulnId, cveId))
        /\ pending' = MapSet(c.pending, vulnId, new)
        /\ removals' = c.removals
  /\ lastOp' = [op |-> "register", vulnId |-> vulnId, found |-> MapHas(pending, vulnId)]
  /\ UNCHANGED <<engineVars, routeVars>>

\* lines 47-52: the setTimeout callback of registration e
timeoutCallbackNoDelete(e) ==
  /\ e \in 1..Len(handles)
  /\ handles[e].timer = "armed"
  /\ LET v == handles[e].vulnId
         fired == [handles EXCEPT ![e].timer = "fired"]
     IN IF MapHas(pending, v)
        THEN /\ pending' = pending
             /\ removals' = removals
             /\ handles' = [fired EXCEPT ![e] = PromiseReject(@, TimeoutError(@.cveId))]
        ELSE /\ handles' = fired
             /\ UNCHANGED <<pending, removals>>
  /\ lastOp' = [op |-> "timeout", vulnId |-> handles[e].vulnId,
                found |-> MapHas(pending, handles[e].vulnId)]
  /\ UNCHANGED <<engineVars, routeVars>>

timeoutCallback(e) ==
  /\ e \in 1..Len(handles)
  /\ handles[e].timer = "armed"
  /\ LET v == handles[e].vulnId
         fired == [handles EXCEPT ![e].timer = "fired"]
     IN IF MapHas(pending, v)
        THEN /\ pending' = MapDelete(pending, v)
             /\ removals' = Append(removals,
                              [eid |-> MapGet(pending, v), cause |-> "timeout", by |-> e])
             /\ handles' = [fired EXCEPT ![e] = PromiseReject(@, TimeoutError(@.cveId))]
        ELSE /\ handles' = fired
             /\ UNCHANGED <<pending, removals>>
  /\ lastOp' = [op |-> "timeout", vulnId |-> handles[e].vulnId,
                found |-> MapHas(pending, handles[e].vulnId)]
  /\ UNCHANGED <<engineVars, routeVars>>

\* ------------------------------------------------------------------------
\* resolvePendingRebuild
\* ------------------------------------------------------------------------
resolvePendingRebuildNoDelete(vulnId, result) ==
  /\ IF ~MapHas(pending, vulnId)
     THEN UNCHANGED <<pending, handles, removals>>
     ELSE LET e == MapGet(pending, vulnId) IN
          /\ handles' = [handles EXCEPT ![e] = PromiseResolve(ClearTimeout(@), result)]
          /\ UNCHANGED <<pending, removals>>
  /\ lastOp' = [op |-> "resolve", vulnId |-> vulnId, found |-> MapHas(pending, vulnId)]

\* resolve without the early return of line 72: it answers true to every call
resolvePendingRebuildAlwaysTrue(vulnId, result) ==
  /\ IF ~MapHas(pending, vulnId)
     THEN UNCHANGED <<pending, handles, removals>>
     ELSE LET e == MapGet(pending, vulnId) IN
          /\ handles' = [handles EXCEPT ![e] = PromiseResolve(ClearTimeout(@), result)]
          /\ pending' = MapDelete(pending, vulnId)
          /\ removals' = Append(removals, [eid |-> e, cause |-> "resolve", by |-> e])
  /\ lastOp' = [op |-> "resolve", vulnId |-> vulnId, found |-> TRUE]

resolvePendingRebuildNoClear(vulnId, result) ==
  /\ IF ~MapHas(pending, vulnId)
     THEN UNCHANGED <<pending, handles, removals>>
     ELSE LET e == MapGet(pending, vulnId) IN
          /\ handles' = [handles EXCEPT ![e] = PromiseResolve(@, result)]
          /\ pending' = MapDelete(pending, vulnId)
          /\ removals' = Append(removals, [eid |-> e, cause |-> "resolve", by |-> e])
  /\ lastOp' = [op |-> "resolve", vulnId |-> vulnId, found |-> MapHas(pending, vulnId)]

\* the return value is lastOp'.found
resolvePendingRebuild(vulnId, result) ==
  /\ IF ~MapHas(pending, vulnId)
     THEN UNCHANGED <<pending, handles, removals>>
     ELSE LET e == MapGet(pending, vulnId) IN
          /\ handles' = [handles EXCEPT ![e] = PromiseResolve(ClearTimeout(@), result)]
          /\ pending' = MapDelete(pending, vulnId)
          /\ removals' = Append(removals, [eid |-> e, cause |-> "resolve", by |-> e])
  /\ lastOp' = [op |-> "resolve", vulnId |-> vulnId, found |-> MapHas(pending, vulnId)]

\* ------------------------------------------------------------------------
\* listPendingRebuilds
\* ------------------------------------------------------------------------
\* a list that reports every registration ever made, removed ones included
ListOfRegistrations(m, hs) == {[vulnId |-> hs[e].vulnId, cveId |-> hs[e].cveId] : e \in 1..Len(hs)}

\* the snapshot returned: one {vulnId, cveId} per stored entry
ListOf(m, hs) == {[vulnId |-> x.vulnId, cveId |-> hs[x.eid].cveId] : x \in m}

listPendingRebuilds ==
  /\ lastOp' = [op |-> "list", vulnId |-> "", found |-> pending # {},
                returned |-> ListOf(pending, handles)]
  /\ UNCHANGED <<pending, handles, removals>>
  /\ UNCHANGED <<engineVars, routeVars>>

\* ------------------------------------------------------------------------
\* Vulnerability records and the initial RemediationState
\* ------------------------------------------------------------------------
\* "" stands for an absent (undefined) optional field: both are falsy
Vulnerabilities ==
  [id : {"vuln-1"}, cveId : {TargetCve}, source : {"trivy", "snyk"},
   imageName : {"", "ubuntu:22.04"}, filePath : {"", "package.json"}]

\* the defaults of RemediationStateAnnotation, as createBaseState spells them
createBaseState(vuln) ==
  [vulnerability |-> vuln, category |-> "null", rebuildWouldFix |-> "null",
   ragResults |-> 0, ragFixApplicable |-> FALSE, proposedFix |-> "",
   patchContent |-> "", dockerfileChanges |-> "", prUrl |-> "", tagName |-> "",
   workflowRunUrl |-> "", rebuildVerified |-> FALSE, rebuildSuccessful |-> FALSE,
   rebuildScanResult |-> NULL, status |-> "pending", stepLog |-> <<>>, error |-> ""]

\* every channel, stepLog included, reduced by (_, next) => next
ReduceOverwrite(prev, update) ==
  [f \in DOMAIN prev |-> IF f \in DOMAIN update THEN update[f] ELSE prev[f]]

\* the reducers: stepLog appends, every other field takes the latest value
Reduce(prev, update) ==
  [f \in DOMAIN prev |->
     IF f \in DOMAIN update
     THEN IF f = "stepLog" THEN prev[f] \o update[f] ELSE update[f]
     ELSE prev[f]]

logEntry(n, status) == [node |-> n, status |-> status]

\* ------------------------------------------------------------------------
\* Collaborator answers
\* ------------------------------------------------------------------------
\* JSON.parse on the answers explored: ok = FALSE is a SyntaxError
JSONParse(text) ==
  CASE text = "{\"category\":\"container\"}" ->
         [ok |-> TRUE, value |-> [category |-> "container"]]
    [] text = "{\"category\":\"code\"}" ->
         [ok |-> TRUE, value |-> [category |-> "code"]]
    [] text = "{\"category\":\"os-package\"}" ->
         [ok |-> TRUE, value |-> [category |-> "os-package"]]
    [] text = "{\"rebuildWouldFix\":true}" ->
         [ok |-> TRUE, value |-> [rebuildWouldFix |-> "true"]]
    [] text = "{\"rebuildWouldFix\":false}" ->
         [ok |-> TRUE, value |-> [rebuildWouldFix |-> "false"]]
    [] text = "{\"rebuildWouldFix\":\"true\"}" ->
         [ok |-> TRUE, value |-> [rebuildWouldFix |-> "\"true\""]]
    [] text = "{\"fixDescription\":\"upgrade\",\"patchContent\":\"diff\"}" ->
         [ok |-> TRUE, value |-> [fixDescription |-> "upgrade", patchContent |-> "diff"]]
    [] text = "{\"fixDescription\":\"upgrade\",\"dockerfileChanges\":\"RUN apk upgrade\"}" ->
         [ok |-> TRUE, value |-> [fixDescription |-> "upgrade",
                                  dockerfileChanges |-> "RUN apk upgrade"]]
    [] text = "{\"fixDescription\":\"upgrade\"}" ->
         [ok |-> TRUE, value |-> [fixDescription |-> "upgrade"]]
    [] text = "{}" -> [ok |-> TRUE, value |-> [empty |-> TRUE]]
    [] text = "null" -> [ok |-> TRUE, value |-> NULL]
    [] OTHER -> [ok |-> FALSE, value |-> NULL]

\* parsed.field: "undefined" when the object lacks it
Field(obj, f) == IF f \in DOMAIN obj THEN obj[f] ELSE "undefined"

\* what llm.invoke yields: a rejection, or a message whose content is a
\* string or something else (then the node reads "")
LLMAnswers(texts) ==
  {[kind |-> "throw", content |-> ""], [kind |-> "nonstring", content |-> ""]}
    \cup {[kind |-> "string", content |-> t] : t \in texts}

ClassifyTexts ==
  {"{\"category\":\"container\"}", "{\"category\":\"code\"}",
   "{\"category\":\"os-package\"}", "{}", "null", "It is a container issue."}

RebuildTexts ==
  {"{\"rebuildWouldFix\":true}", "{\"rebuildWouldFix\":false}",
   "{\"rebuildWouldFix\":\"true\"}", "{}", "null", "Yes, a rebuild fixes it."}

ResearchTexts ==
  {"{\"fixDescription\":\"upgrade\",\"patchContent\":\"diff\"}",
   "{\"fixDescription\":\"upgrade\",\"dockerfileChanges\":\"RUN apk upgrade\"}",
   "{\"fixDescription\":\"upgrade\"}", "null", "Upgrade the package."}

\* typeof response.content === "string" ? response.content : ""
TextOf(answer) == IF answer.kind = "string" THEN answer.content ELSE ""

\* ------------------------------------------------------------------------
\* Node functions: each returns the partial state update of the node
\* ------------------------------------------------------------------------
\* the fallback heuristic without its test on the scanner
isOsPkgAnySource(vuln) ==
  /\ vuln.filePath = ""
  /\ vuln.imageName # ""

\* agentNodes.ts:81-85, the fallback heuristic
isOsPkg(vuln) ==
  /\ vuln.source = "trivy"
  /\ vuln.filePath = ""
  /\ vuln.imageName # ""

\* the try block of lines 75-79 left without its catch: a parse error or a
\* property read on null rejects the node
classifyVulnRejectsUncaught(s, answer) ==
  LET parsed == JSONParse(TextOf(answer))
  IN answer.kind = "throw" \/ ~parsed.ok \/ parsed.value = NULL

\* whether the node's promise rejects: llm.invoke is awaited outside the try
\* block, and whatever JSON.parse or the property reads throw is caught
classifyVulnRejects(s, answer) == answer.kind = "throw"

classifyVuln(s, answer) ==
  LET parsed == JSONParse(TextOf(answer))
      category ==
        IF parsed.ok /\ parsed.value # NULL
        THEN IF Field(parsed.value, "category") = "container" THEN "container" ELSE "code"
        ELSE IF isOsPkg(s.vulnerability) THEN "container" ELSE "code"
  IN [category |-> category, status |-> "classifying",
      stepLog |-> <<logEntry("classifyVuln", "completed")>>]

\* rebuild-check that takes any truthy rebuildWouldFix, the string "true"
\* included, for a confirmation
tryRebuildTruthy(s, answer) ==
  LET parsed == JSONParse(TextOf(answer))
      rebuildWouldFix ==
        IF parsed.ok /\ parsed.value # NULL
        THEN IF Field(parsed.value, "rebuildWouldFix") \in {"true", "\"true\""}
             THEN "true" ELSE "false"
        ELSE "false"
  IN [rebuildWouldFix |-> rebuildWouldFix, status |-> "rebuilding",
      stepLog |-> <<logEntry("tryRebuild", "completed")>>]

tryRebuild(s, answer) ==
  LET parsed == JSONParse(TextOf(answer))
      rebuildWouldFix ==
        IF parsed.ok /\ parsed.value # NULL
        THEN IF Field(parsed.value, "rebuildWouldFix") = "true" THEN "true" ELSE "false"
        ELSE "false"
  IN [rebuildWouldFix |-> rebuildWouldFix, status |-> "rebuilding",
      stepLog |-> <<logEntry("tryRebuild", "completed")>>]

\* retrieval without its catch: a failed query fails the stage
searchRAGFailsOnThrow(s, found) ==
  IF found < 0
  THEN [status |-> "failed", error |-> "Azure Search query failed",
        stepLog |-> <<logEntry("searchRAG", "failed")>>]
  ELSE [ragResults |-> found, ragFixApplicable |-> found > 0,
        status |-> "searching_rag",
        stepLog |-> <<logEntry("searchRAG", "completed")>>]

\* found: number of fixes searchFixes returned, or -1 when it threw
searchRAG(s, found) ==
  LET ragResults == IF found < 0 THEN 0 ELSE found
  IN [ragResults |-> ragResults, ragFixApplicable |-> ragResults > 0,
      status |-> "searching_rag",
      stepLog |-> <<logEntry("searchRAG", "completed")>>]

\* x ?? ""
OrEmpty(x) == IF x = "undefined" THEN "" ELSE x

researchFix(s, answer) ==
  LET text == TextOf(answer)
      parsed == JSONParse(text)
      structured == parsed.ok /\ parsed.value # NULL
  IN [proposedFix |-> IF structured THEN OrEmpty(Field(parsed.value, "fixDescription"))
                      ELSE text,
      patchContent |-> IF structured THEN OrEmpty(Field(parsed.value, "patchContent"))
                       ELSE "",
      dockerfileChanges |->
        IF structured THEN OrEmpty(Field(parsed.value, "dockerfileChanges")) ELSE "",
      status |-> "researching",
      stepLog |-> <<logEntry("researchFix", "completed")>>]

\* outcome: "none" (no call: nothing to commit), "ok" or "throw" of createPullRequest
createPRNode(s, outcome) ==
  IF s.patchContent = ""
  THEN [status |-> "failed", error |-> "No patch content generated",
        stepLog |-> <<logEntry("createPR", "failed")>>]
  ELSE IF outcome = "ok"
  THEN [prUrl |-> "https://github.com/pull/1", status |-> "creating_pr",
        stepLog |-> <<logEntry("createPR", "completed")>>]
  ELSE [status |-> "failed", error |-> "Failed to create PR",
        stepLog |-> <<logEntry("createPR", "failed")>>]

\* outcome of createApprovalTagWorkflow: "ok", "dispatchFailed" (the tag exists,
\* the dispatch error is swallowed) or "throw"
createTagWorkflowNode(s, outcome) ==
  IF outcome \in {"ok", "dispatchFailed"}
  THEN [tagName |-> "rebuild/cve", workflowRunUrl |-> "https://github.com/actions",
        status |-> "awaiting_approval",
        stepLog |-> <<logEntry("createTagWorkflow", "completed")>>]
  ELSE [status |-> "failed", error |-> "Failed to create tag/workflow",
        stepLog |-> <<logEntry("createTagWorkflow", "failed")>>]

\* the verification stage
verifyRebuildResult(s) ==
  LET scan == s.rebuildScanResult IN
  IF scan = NULL
  THEN [rebuildVerified |-> FALSE, rebuildSuccessful |-> FALSE, status |-> "failed",
        error |-> "No rebuild scan result received",
        stepLog |-> <<logEntry("verifyRebuildResult", "failed")>>]
  ELSE IF scan.buildSuccess /\ s.vulnerability.cveId \notin scan.vulnerabilities
  THEN [rebuildVerified |-> TRUE, rebuildSuccessful |-> TRUE,
        status |-> "verifying_rebuild",
        stepLog |-> <<logEntry("verifyRebuildResult", "completed")>>]
  ELSE [rebuildVerified |-> TRUE, rebuildSuccessful |-> FALSE, status |-> "failed",
        error |-> "Rebuild did not fix the vulnerability",
        stepLog |-> <<logEntry("verifyRebuildResult", "failed")>>]

\* outcome of storeFix: "ok" or "throw"
storeInRAG(s, outcome) ==
  IF outcome = "ok"
  THEN [status |-> "resolved", stepLog |-> <<logEntry("storeInRAG", "completed")>>]
  ELSE [status |-> "resolved", stepLog |-> <<logEntry("storeInRAG", "failed")>>]

\* ------------------------------------------------------------------------
\* buildRemediationAgentMap: the edges
\* ------------------------------------------------------------------------
\* the edge after classify decided on the input record instead of the
\* category just produced
AfterClassifyByImage(s) ==
  IF s.vulnerability.imageName # "" THEN "tryRebuild" ELSE "searchRAG"

AfterClassify(s) == IF s.category = "container" THEN "tryRebuild" ELSE "searchRAG"

AfterTryRebuild(s) == IF s.rebuildWouldFix = "true" THEN "createTagWorkflow" ELSE "searchRAG"

\* the edge after retrieval without its test on the category
AfterSearchRAGAnyCategory(s) == IF s.ragFixApplicable THEN "createPR" ELSE "researchFix"

AfterSearchRAG(s) ==
  LET isContainer == s.category = "container" IN
  IF s.ragFixApplicable /\ isContainer THEN "createTagWorkflow"
  ELSE IF s.ragFixApplicable /\ ~isContainer THEN "createPR"
  ELSE "researchFix"

AfterResearchFixSwapped(s) == IF s.category = "container" THEN "createPR" ELSE "createTagWorkflow"

AfterResearchFix(s) == IF s.category = "container" THEN "createTagWorkflow" ELSE "createPR"

AfterCreatePR(s) == "storeInRAG"

AfterCreateTagWorkflow(s) == "verifyRebuildResult"

AfterVerifyAlwaysStore(s) == "storeInRAG"

AfterVerify(s) == IF s.rebuildSuccessful THEN "storeInRAG" ELSE "__end__"

AfterStoreInRAG(s) == "__end__"

\* a superstep that can be taken only while the correlation store is empty
StepWhenNoWait(n, update, target) ==
  /\ pending = {}
  /\ state' = Reduce(state, update)
  /\ visited' = Append(visited, n)
  /\ node' = target

\* one superstep of the compiled graph: apply the update, follow the edge
Step(n, update, target) ==
  /\ state' = Reduce(state, update)
  /\ visited' = Append(visited, n)
  /\ node' = target

\* a node whose promise rejects makes invoke()/stream() reject
Throw(n) ==
  /\ node' = "thrown"
  /\ visited' = Append(visited, n)
  /\ UNCHANGED state

\* ------------------------------------------------------------------------
\* The nodes as actions
\* ------------------------------------------------------------------------
ClassifyVuln ==
  /\ node = "classifyVuln"
  /\ \E a \in LLMAnswers(ClassifyTexts) :
       /\ response' = a
       /\ IF classifyVulnRejects(state, a) THEN Throw("classifyVuln")
          ELSE LET u == classifyVuln(state, a)
               IN Step("classifyVuln", u, AfterClassify(Reduce(state, u)))
  /\ UNCHANGED <<calls, pipeline>>
  /\ UNCHANGED <<storeVars, routeVars>>

TryRebuild ==
  /\ node = "tryRebuild"
  /\ \E a \in LLMAnswers(RebuildTexts) :
       /\ response' = a
       /\ IF a.kind = "throw" THEN Throw("tryRebuild")
          ELSE LET u == tryRebuild(state, a)
               IN Step("tryRebuild", u, AfterTryRebuild(Reduce(state, u)))
  /\ UNCHANGED <<calls, pipeline>>
  /\ UNCHANGED <<storeVars, routeVars>>

SearchRAG ==
  /\ node = "searchRAG"
  /\ \E found \in {-1, 0, 1} :
       LET u == searchRAG(state, found)
       IN /\ Step("searchRAG", u, AfterSearchRAG(Reduce(state, u)))
          /\ calls' = Append(calls, [api |-> "searchFixes",
                                     outcome |-> IF found = -1 THEN "throw" ELSE "ok"])
  /\ UNCHANGED <<pipeline, response>>
  /\ UNCHANGED <<storeVars, routeVars>>

ResearchFix ==
  /\ node = "researchFix"
  /\ \E a \in LLMAnswers(ResearchTexts) :
       /\ response' = a
       /\ IF a.kind = "throw" THEN Throw("researchFix")
          ELSE LET u == researchFix(state, a)
               IN Step("researchFix", u, AfterResearchFix(Reduce(state, u)))
  /\ UNCHANGED <<calls, pipeline>>
  /\ UNCHANGED <<storeVars, routeVars>>

CreatePR ==
  /\ node = "createPR"
  /\ \E outcome \in {"ok", "throw"} :
       LET u == createPRNode(state, outcome)
       IN /\ Step("createPR", u, AfterCreatePR(Reduce(state, u)))
          /\ calls' = IF state.patchContent = "" THEN calls
                      ELSE Append(calls, [api |-> "createPullRequest", outcome |-> outcome])
  /\ UNCHANGED <<pipeline, response>>
  /\ UNCHANGED <<storeVars, routeVars>>

\* a tag stage that registers a wait for the callback whatever the outcome
\* of the tag and dispatch
CreateTagWorkflowAlwaysRegisters ==
  /\ node = "createTagWorkflow"
  /\ \E outcome \in {"ok", "dispatchFailed", "throw"} :
       LET u == createTagWorkflowNode(state, outcome)
       IN /\ Step("createTagWorkflow", u, AfterCreateTagWorkflow(Reduce(state, u)))
          /\ calls' = Append(calls, [api |-> "createApprovalTagWorkflow",
                                     outcome |-> outcome])
          /\ pipeline' = IF outcome = "ok" THEN [status |-> "dispatched", result |-> NULL]
                         ELSE pipeline
  /\ handles' = Append(handles, NewHandle(state.vulnerability.id, state.vulnerability.cveId))
  /\ pending' = MapSet(pending, state.vulnerability.id, Len(handles) + 1)
  /\ UNCHANGED <<removals, lastOp, response, routeVars>>

CreateTagWorkflow ==
  /\ node = "createTagWorkflow"
  /\ \E outcome \in {"ok", "dispatchFailed", "throw"} :
       LET u == createTagWorkflowNode(state, outcome)
       IN /\ Step("createTagWorkflow", u, AfterCreateTagWorkflow(Reduce(state, u)))
          /\ calls' = Append(calls, [api |-> "createApprovalTagWorkflow",
                                     outcome |-> outcome])
          /\ pipeline' = IF outcome = "ok" THEN [status |-> "dispatched", result |-> NULL]
                         ELSE pipeline
  /\ UNCHANGED <<response, storeVars, routeVars>>

VerifyRebuildResult ==
  /\ node = "verifyRebuildResult"
  /\ LET u == verifyRebuildResult(state)
     IN Step("verifyRebuildResult", u, AfterVerify(Reduce(state, u)))
  /\ UNCHANGED <<calls, pipeline, response>>
  /\ UNCHANGED <<storeVars, routeVars>>

StoreInRAG ==
  /\ node = "storeInRAG"
  /\ \E outcome \in {"ok", "throw"} :
       LET u == storeInRAG(state, outcome)
       IN /\ Step("storeInRAG", u, AfterStoreInRAG(Reduce(state, u)))
          /\ calls' = Append(calls, [api |-> "storeFix", outcome |-> outcome])
  /\ UNCHANGED <<pipeline, response>>
  /\ UNCHANGED <<storeVars, routeVars>>

\* ------------------------------------------------------------------------
\* The rebuild workflow and its webhook
\* ------------------------------------------------------------------------
\* the dispatched workflow posts its scan result once; the webhook handler
\* hands it to resolvePendingRebuild
WebhookRebuildComplete ==
  /\ pipeline.status = "dispatched"
  /\ \E r \in CallbackResults :
       /\ resolvePendingRebuild(state.vulnerability.id, r)
       /\ pipeline' = [status |-> "reported", result |-> r]
  /\ UNCHANGED <<state, node, visited, calls, response, routeVars>>

\* ------------------------------------------------------------------------
\* Specification of the store under arbitrary callers
\* ------------------------------------------------------------------------
Init ==
  /\ pending = {}
  /\ handles = <<>>
  /\ removals = <<>>
  /\ lastOp = [op |-> "none", vulnId |-> "", found |-> FALSE]
  /\ state = NULL
  /\ node = "idle"
  /\ visited = <<>>
  /\ calls = <<>>
  /\ pipeline = [status |-> "none", result |-> NULL]
  /\ response = NULL
  /\ collaborators = NULL
  /\ served = NoneServed
  /\ vulnerabilities = {}

\* the caller registers a vulnerability under its own id and CVE id
Register == \E v \in VulnIds : registerPendingRebuild(v, CveOf[v])

Resolve ==
  \E v \in VulnIds, r \in CallbackResults :
    resolvePendingRebuild(v, r) /\ UNCHANGED <<engineVars, routeVars>>

Timeout == \E e \in 1..Len(handles) : timeoutCallback(e)

List == listPendingRebuilds

Next == Register \/ Resolve \/ Timeout \/ List

Spec == Init /\ [][Next]_vars

\* ------------------------------------------------------------------------
\* Specification of one remediation run (graph.invoke on a stored record)
\* ------------------------------------------------------------------------
EngineInit ==
  /\ pending = {}
  /\ handles = <<>>
  /\ removals = <<>>
  /\ lastOp = [op |-> "none", vulnId |-> "", found |-> FALSE]
  /\ \E vuln \in Vulnerabilities : state = createBaseState(vuln)
  /\ node = "classifyVuln"
  /\ visited = <<>>
  /\ calls = <<>>
  /\ pipeline = [status |-> "none", result |-> NULL]
  /\ response = NULL
  /\ collaborators = NULL
  /\ served = NoneServed
  /\ vulnerabilities = {}

EngineNext ==
  \/ ClassifyVuln
  \/ TryRebuild
  \/ SearchRAG
  \/ ResearchFix
  \/ CreatePR
  \/ CreateTagWorkflow
  \/ VerifyRebuildResult
  \/ StoreInRAG
  \/ WebhookRebuildComplete

EngineSpec == EngineInit /\ [][EngineNext]_vars

\* ------------------------------------------------------------------------
\* Specification of the two remediation routes on one stored vulnerability
\* ------------------------------------------------------------------------
\* collaborators that give the same answer to the same request: one answer
\* per collaborator call site
Collaborators ==
  [classify : {[kind |-> "throw", content |-> ""],
               [kind |-> "string", content |-> "{\"category\":\"container\"}"],
               [kind |-> "string", content |-> "{\"category\":\"code\"}"],
               [kind |-> "string", content |-> "It is a container issue."]},
   rebuild : {[kind |-> "throw", content |-> ""],
              [kind |-> "string", content |-> "{\"rebuildWouldFix\":true}"],
              [kind |-> "string", content |-> "{\"rebuildWouldFix\":false}"]},
   search : {-1, 0, 1},
   research : {[kind |-> "throw", content |-> ""],
               [kind |-> "string",
                content |-> "{\"fixDescription\":\"upgrade\",\"patchContent\":\"diff\"}"],
               [kind |-> "string",
                content |-> "{\"fixDescription\":\"upgrade\",\"dockerfileChanges\":\"RUN apk upgrade\"}"],
               [kind |-> "string", content |-> "Upgrade the package."]},
   pr : {"ok", "throw"},
   tag : {"ok", "dispatchFailed", "throw"},
   store : {"ok", "throw"}]

\* one node of the compiled graph run on state s: whether it rejects, the
\* update it returns, the node its edge leads to, and the calls it makes
NodeOutcome(n, s, co) ==
  CASE n = "classifyVuln" ->
         LET u == classifyVuln(s, co.classify)
         IN [threw |-> classifyVulnRejects(s, co.classify), update |-> u,
             target |-> AfterClassify(Reduce(s, u)), calls |-> <<>>]
    [] n = "tryRebuild" ->
         LET u == tryRebuild(s, co.rebuild)
         IN [threw |-> co.rebuild.kind = "throw", update |-> u,
             target |-> AfterTryRebuild(Reduce(s, u)), calls |-> <<>>]
    [] n = "searchRAG" ->
         LET u == searchRAG(s, co.search)
         IN [threw |-> FALSE, update |-> u,
             target |-> AfterSearchRAG(Reduce(s, u)),
             calls |-> <<[api |-> "searchFixes",
                          outcome |-> IF co.search = -1 THEN "throw" ELSE "ok"]>>]
    [] n = "researchFix" ->
         LET u == researchFix(s, co.research)
         IN [threw |-> co.research.kind = "throw", update |-> u,
             target |-> AfterResearchFix(Reduce(s, u)), calls |-> <<>>]
    [] n = "createPR" ->
         LET u == createPRNode(s, co.pr)
         IN [threw |-> FALSE, update |-> u,
             target |-> AfterCreatePR(Reduce(s, u)),
             calls |-> IF s.patchContent = "" THEN <<>>
                       ELSE <<[api |-> "createPullRequest", outcome |-> co.pr]>>]
    [] n = "createTagWorkflow" ->
         LET u == createTagWorkflowNode(s, co.tag)
         IN [threw |-> FALSE, update |-> u,
             target |-> AfterCreateTagWorkflow(Reduce(s, u)),
             calls |-> <<[api |-> "createApprovalTagWorkflow", outcome |-> co.tag]>>]
    [] n = "verifyRebuildResult" ->
         LET u == verifyRebuildResult(s)
         IN [threw |-> FALSE, update |-> u,
             target |-> AfterVerify(Reduce(s, u)), calls |-> <<>>]
    [] n = "storeInRAG" ->
         LET u == storeInRAG(s, co.store)
         IN [threw |-> FALSE, update |-> u,
             target |-> AfterStoreInRAG(Reduce(s, u)),
             calls |-> <<[api |-> "storeFix", outcome |-> co.store]>>]

\* the graph run from node n to its end, or to the node that rejects
RECURSIVE Execute(_, _, _)
Execute(n, run, co) ==
  IF n = "__end__" THEN run
  ELSE LET o == NodeOutcome(n, run.state, co)
       IN IF o.threw
          THEN [run EXCEPT !.visited = Append(@, n), !.threw = TRUE]
          ELSE Execute(o.target,
                       [state |-> Reduce(run.state, o.update),
                        visited |-> Append(run.visited, n),
                        calls |-> run.calls \o o.calls,
                        updates |-> Append(run.updates, [node |-> n, output |-> o.update]),
                        threw |-> FALSE],
                       co)

\* graph.invoke({ vulnerability: vuln }): the final state, or a rejection
graphInvoke(vuln, co) ==
  Execute("classifyVuln",
          [state |-> createBaseState(vuln), visited |-> <<>>, calls |-> <<>>,
           updates |-> <<>>, threw |-> FALSE],
          co)

\* graph.stream({ vulnerability: vuln }, { streamMode: "updates" }): one
\* update per node executed, then the end of the stream or a rejection
graphStream(vuln, co) == graphInvoke(vuln, co)

\* the events the stream route sends for one update: a step event per log
\* entry of the node's output, then a state event
EventsOf(update) ==
  [i \in 1..Len(update.output.stepLog) |->
     [type |-> "step", node |-> update.output.stepLog[i].node]]
    \o <<[type |-> "state", node |-> update.node]>>

RECURSIVE EventsOfAll(_)
EventsOfAll(updates) ==
  IF updates = <<>> THEN <<>>
  ELSE EventsOf(Head(updates)) \o EventsOfAll(Tail(updates))

\* the body of router.post("/api/remediate/:id") for a stored record
remediateRoute(vuln, co) ==
  LET run == graphInvoke(vuln, co)
  IN [executed |-> run.visited,
      calls |-> run.calls,
      status |-> IF run.threw THEN 500 ELSE 200,
      result |-> IF run.threw THEN NULL ELSE run.state]

\* router.post("/api/remediate/:id")
PostRemediate ==
  /\ served.invoke = NULL
  /\ served' = [served EXCEPT !.invoke = remediateRoute(state.vulnerability, collaborators)]
  /\ UNCHANGED <<storeVars, engineVars, collaborators, vulnerabilities>>

\* a stream route that sends done whatever happened
streamRouteAlwaysDone(vuln, co, co2) ==
  LET streamed == graphStream(vuln, co)
      final == graphInvoke(vuln, co2)
      invoked == ~streamed.threw
  IN [executed |-> IF invoked THEN streamed.visited \o final.visited
                   ELSE streamed.visited,
      calls |-> IF invoked THEN streamed.calls \o final.calls ELSE streamed.calls,
      events |-> EventsOfAll(streamed.updates) \o <<[type |-> "done", node |-> ""]>>,
      result |-> IF invoked THEN final.state ELSE NULL,
      threw |-> [stream |-> streamed.threw, invoke |-> invoked /\ final.threw]]

\* the body of router.get("/api/remediate/:id/stream") for a stored record:
\* the graph is streamed with the collaborators answering as co, then
\* invoked again for the final state with the collaborators answering as co2
streamRoute(vuln, co, co2) ==
  LET streamed == graphStream(vuln, co)
      final == graphInvoke(vuln, co2)
      invoked == ~streamed.threw
      failed == streamed.threw \/ final.threw
  IN [executed |-> IF invoked THEN streamed.visited \o final.visited
                   ELSE streamed.visited,
      calls |-> IF invoked THEN streamed.calls \o final.calls ELSE streamed.calls,
      events |-> EventsOfAll(streamed.updates)
                   \o <<[type |-> IF failed THEN "error" ELSE "done", node |-> ""]>>,
      result |-> IF failed THEN NULL ELSE final.state,
      threw |-> [stream |-> streamed.threw, invoke |-> invoked /\ final.threw]]

\* router.get("/api/remediate/:id/stream") with collaborators that answer
\* the second run as they answered the first
StreamRemediate ==
  /\ served.stream = NULL
  /\ served' = [served EXCEPT !.stream =
                  streamRoute(state.vulnerability, collaborators, collaborators)]
  /\ UNCHANGED <<storeVars, engineVars, collaborators, vulnerabilities>>

\* one vulnerability is stored, no run exists yet
ModeInit ==
  /\ pending = {}
  /\ handles = <<>>
  /\ removals = <<>>
  /\ lastOp = [op |-> "none", vulnId |-> "", found |-> FALSE]
  /\ \E vuln \in Vulnerabilities : state = createBaseState(vuln)
  /\ node = "idle"
  /\ visited = <<>>
  /\ calls = <<>>
  /\ pipeline = [status |-> "none", result |-> NULL]
  /\ response = NULL
  /\ collaborators \in Collaborators
  /\ served = NoneServed
  /\ vulnerabilities = {state.vulnerability}

ModeNext == PostRemediate \/ StreamRemediate

ModeSpec == ModeInit /\ [][ModeNext]_vars

\* ------------------------------------------------------------------------
\* Specification of the stream route with collaborators that may fail later
\* ------------------------------------------------------------------------
\* the answers of the second run: the same, or one language-model call that
\* now fails
Retry(co) ==
  {co, [co EXCEPT !.classify = [kind |-> "throw", content |-> ""]],
       [co EXCEPT !.rebuild = [kind |-> "throw", content |-> ""]],
       [co EXCEPT !.research = [kind |-> "throw", content |-> ""]]}

StreamRemediateRetry ==
  /\ served.stream = NULL
  /\ \E co2 \in Retry(collaborators) :
       served' = [served EXCEPT !.stream =
                    streamRoute(state.vulnerability, collaborators, co2)]
  /\ UNCHANGED <<storeVars, engineVars, collaborators, vulnerabilities>>

StreamInit == ModeInit

StreamNext == StreamRemediateRetry

StreamSpec == StreamInit /\ [][StreamNext]_vars

\* ------------------------------------------------------------------------
\* Specification of the vulnerability routes
\* ------------------------------------------------------------------------
\* config.github.defaultOwner, config.github.defaultRepo
DefaultOwner == "default-owner"

DefaultRepo == "default-repo"

\* `https://github.com/${defaultOwner}/${defaultRepo}`
DefaultRepoUrl == "https://github.com/default-owner/default-repo"

\* the ids uuidv4() hands out
UuidPool == {"uuid-1"}

\* new Date().toISOString()
Now == "2026-01-01T00:00:00.000Z"

\* request bodies of POST /api/vulnerabilities; "undefined" is an absent field
RequestBodies ==
  [id : {"undefined", "vuln-1"}, cveId : {TargetCve}, source : {"trivy"},
   imageName : {"ubuntu:22.04"}, filePath : {""},
   repoOwner : {"undefined", "", "acme"}, repoName : {"undefined", "svc"},
   repoUrl : {"undefined"}, createdAt : {"undefined", "2024-05-01T00:00:00.000Z"}]

\* !x for an optional string
Falsy(x) == x \in {"undefined", ""}

\* vulnerabilities.has / get / set
VulnHas(m, id) == \E x \in m : x.id = id

VulnGet(m, id) == CHOOSE x \in m : x.id = id

VulnSet(m, vuln) == {x \in m : x.id # vuln.id} \cup {vuln}

\* POST /api/vulnerabilities
PostVulnerability ==
  /\ \E body \in RequestBodies, uuid \in UuidPool :
       /\ body.id = "undefined" => ~VulnHas(vulnerabilities, uuid)
       /\ LET vuln == [body EXCEPT
                         !.id = IF body.id = "undefined" THEN uuid ELSE body.id,
                         !.createdAt = IF body.createdAt = "undefined" THEN Now
                                       ELSE body.createdAt]
          IN vulnerabilities' = VulnSet(vulnerabilities, vuln)
  /\ UNCHANGED <<storeVars, engineVars, collaborators, served>>

\* GET /api/vulnerabilities
GetVulnerabilities ==
  /\ served' = [served EXCEPT !.invoke = [status |-> 200, list |-> vulnerabilities]]
  /\ UNCHANGED <<storeVars, engineVars, collaborators, vulnerabilities>>

\* the record after the backfill of lines 539-543
Backfill(vuln) ==
  IF Falsy(vuln.repoOwner) \/ Falsy(vuln.repoName)
  THEN [vuln EXCEPT !.repoOwner = DefaultOwner, !.repoName = DefaultRepo,
                    !.repoUrl = DefaultRepoUrl]
  ELSE vuln

\* GET /api/vulnerabilities/:id: the stored object itself is assigned to
GetVulnerability(id) ==
  /\ IF ~VulnHas(vulnerabilities, id)
     THEN /\ served' = [served EXCEPT !.invoke = [status |-> 404]]
          /\ UNCHANGED vulnerabilities
     ELSE LET vuln == Backfill(VulnGet(vulnerabilities, id))
          IN /\ vulnerabilities' = VulnSet(vulnerabilities, vuln)
             /\ served' = [served EXCEPT !.invoke = [status |-> 200, body |-> vuln]]
  /\ UNCHANGED <<storeVars, engineVars, collaborators>>

\* POST /api/remediate/:id on the stored records
Remediate(id) ==
  /\ IF ~VulnHas(vulnerabilities, id)
     THEN served' = [served EXCEPT !.invoke = [status |-> 404]]
     ELSE served' = [served EXCEPT !.invoke =
                       remediateRoute(VulnGet(vulnerabilities, id), collaborators)]
  /\ UNCHANGED <<storeVars, engineVars, collaborators, vulnerabilities>>

\* the collaborators of the runs started: a rebuild that is dispatched, or a
\* classification that fails
ApiCollaborators ==
  {co \in Collaborators :
     /\ co.classify.content # "It is a container issue."
     /\ co.classify.content # "{\"category\":\"code\"}"
     /\ co.rebuild.content = "{\"rebuildWouldFix\":true}"
     /\ co.search = 0
     /\ co.research.kind = "throw"
     /\ co.pr = "ok" /\ co.tag = "ok" /\ co.store = "ok"}

\* the server has started: nothing is stored
ApiInit ==
  /\ pending = {}
  /\ handles = <<>>
  /\ removals = <<>>
  /\ lastOp = [op |-> "none", vulnId |-> "", found |-> FALSE]
  /\ state = NULL
  /\ node = "idle"
  /\ visited = <<>>
  /\ calls = <<>>
  /\ pipeline = [status |-> "none", result |-> NULL]
  /\ response = NULL
  /\ collaborators \in ApiCollaborators
  /\ served = NoneServed
  /\ vulnerabilities = {}

RequestIds == {"vuln-1", "vuln-2"} \cup UuidPool

ApiNext ==
  \/ PostVulnerability
  \/ GetVulnerabilities
  \/ \E id \in RequestIds : GetVulnerability(id)
  \/ \E id \in RequestIds : Remediate(id)

ApiSpec == ApiInit /\ [][ApiNext]_vars

\* ------------------------------------------------------------------------
\* Specification of the conditional edges applied to arbitrary states
\* ------------------------------------------------------------------------
\* the nodes whose edge is a decision on fields they have just produced
DecisionNodes == {"classifyVuln", "tryRebuild", "searchRAG"}

\* RemediationStates that differ in the decision fields and in other fields
RouteStates ==
  {[createBaseState(vuln) EXCEPT !.category = category,
                                 !.rebuildWouldFix = rebuildWouldFix,
                                 !.ragFixApplicable = ragFixApplicable,
                                 !.patchContent = patchContent,
                                 !.status = status] :
     vuln \in Vulnerabilities,
     category \in {"container", "code"},
     rebuildWouldFix \in {"null", "true", "false"},
     ragFixApplicable \in BOOLEAN,
     patchContent \in {"", "diff"},
     status \in {"classifying", "rebuilding", "searching_rag", "failed"}}

\* the routing function addConditionalEdges attaches to node n
Edge(n, s) ==
  CASE n = "classifyVuln" -> AfterClassify(s)
    [] n = "tryRebuild" -> AfterTryRebuild(s)
    [] n = "searchRAG" -> AfterSearchRAG(s)

\* the engine evaluates the edge of node n on the current state
Route(n) ==
  /\ node = "routing"
  /\ node' = Edge(n, state)
  /\ visited' = <<n>>
  /\ UNCHANGED <<state, calls, pipeline, response, storeVars, routeVars>>

RouteInit ==
  /\ pending = {}
  /\ handles = <<>>
  /\ removals = <<>>
  /\ lastOp = [op |-> "none", vulnId |-> "", found |-> FALSE]
  /\ state \in RouteStates
  /\ node = "routing"
  /\ visited = <<>>
  /\ calls = <<>>
  /\ pipeline = [status |-> "none", result |-> NULL]
  /\ response = NULL
  /\ collaborators = NULL
  /\ served = NoneServed
  /\ vulnerabilities = {}

RouteNext == \E n \in DecisionNodes : Route(n)

RouteSpec == RouteInit /\ [][RouteNext]_vars

\* ------------------------------------------------------------------------
\* Specification of one run next to the wait of another vulnerability
\* ------------------------------------------------------------------------
\* the vulnerability another caller waits for; the run is about "vuln-1"
OtherVulnId == "vuln-2"

RegisterOther == registerPendingRebuild(OtherVulnId, CveOf[OtherVulnId])

\* the callback of the other vulnerability's rebuild: a clean build
OtherResult == [buildSuccess |-> TRUE, vulnerabilities |-> {}]

ResolveOther ==
  resolvePendingRebuild(OtherVulnId, OtherResult) /\ UNCHANGED <<engineVars, routeVars>>

\* the run is about one of the two sample records: a container finding of
\* trivy on an image, or a code finding of snyk in a manifest
SampleVulnerabilities ==
  {vuln \in Vulnerabilities :
     \/ vuln.source = "trivy" /\ vuln.imageName # "" /\ vuln.filePath = ""
     \/ vuln.source = "snyk" /\ vuln.imageName = "" /\ vuln.filePath # ""}

ConcurrentInit ==
  /\ pending = {}
  /\ handles = <<>>
  /\ removals = <<>>
  /\ lastOp = [op |-> "none", vulnId |-> "", found |-> FALSE]
  /\ \E vuln \in SampleVulnerabilities : state = createBaseState(vuln)
  /\ node = "classifyVuln"
  /\ visited = <<>>
  /\ calls = <<>>
  /\ pipeline = [status |-> "none", result |-> NULL]
  /\ response = NULL
  /\ collaborators = NULL
  /\ served = NoneServed
  /\ vulnerabilities = {}

ConcurrentNext == EngineNext \/ RegisterOther \/ ResolveOther \/ Timeout

ConcurrentSpec == ConcurrentInit /\ [][ConcurrentNext]_vars

\* ------------------------------------------------------------------------
\* Specification of the store with timers that eventually fire
\* ------------------------------------------------------------------------
\* a timer that stays armed fires after REBUILD_TIMEOUT_MS
FairSpec ==
  /\ Init
  /\ [][Next]_vars
  /\ \A e \in 1..MaxRegistrations : WF_vars(timeoutCallback(e))

\* ------------------------------------------------------------------------
\* Specification of the verification stage run on its own
\* ------------------------------------------------------------------------
sampleContainerVuln ==
  [id |-> "vuln-1", cveId |-> TargetCve, source |-> "trivy",
   imageName |-> "ubuntu:22.04", filePath |-> ""]

sampleRebuildScanResult == [buildSuccess |-> TRUE, vulnerabilities |-> {"CVE-2024-9999"}]

TestVulnerabilities ==
  [id : {"vuln-1"}, cveId : CveIds, source : {"trivy", "snyk"},
   imageName : {"", "ubuntu:22.04"}, filePath : {"", "package.json"}]

\* the state testVerifyRebuildResult hands to the stage; NULL is an omitted argument
TestStateNoScan(vuln, scanResult) ==
  LET testVuln == IF vuln = NULL THEN sampleContainerVuln ELSE vuln
  IN [createBaseState(testVuln) EXCEPT !.category = "container"]

TestState(vuln, scanResult) ==
  LET testVuln == IF vuln = NULL THEN sampleContainerVuln ELSE vuln
      testScanResult == IF scanResult = NULL THEN sampleRebuildScanResult ELSE scanResult
  IN [createBaseState(testVuln) EXCEPT !.category = "container",
                                       !.rebuildScanResult = testScanResult]

testVerifyRebuildResult ==
  /\ node = "idle"
  /\ \E vuln \in TestVulnerabilities \cup {NULL}, scanResult \in ScanResults \cup {NULL} :
       LET s == TestState(vuln, scanResult)
       IN state' = Reduce(s, verifyRebuildResult(s))
  /\ node' = "tested"
  /\ visited' = <<"verifyRebuildResult">>
  /\ UNCHANGED <<calls, pipeline, response>>
  /\ UNCHANGED <<storeVars, routeVars>>

VerifySpec == Init /\ [][testVerifyRebuildResult]_vars

\* ------------------------------------------------------------------------
\* Properties of the correlation store
\* ------------------------------------------------------------------------
EntriesOf(m, v) == {x \in m : x.vulnId = v}

RemovalsOf(e) == {i \in 1..Len(removals) : removals[i].eid = e}

Stored(e) == [vulnId |-> handles[e].vulnId, eid |-> e] \in pending

\* C1: in every reachable state the store holds at most one entry per vulnId
C1_AtMostOneEntryPerVulnId ==
  \A v \in VulnIds : Cardinality(EntriesOf(pending, v)) <= 1

\* a second registration for a vulnId has just replaced the first
C1_Witness ==
  /\ lastOp.op = "register"
  /\ lastOp.found
  /\ Cardinality(EntriesOf(pending, lastOp.vulnId)) = 1
  /\ Len(handles) >= 2

\* C2: a register for a vulnId that already has an entry rejects the earlier
\* waiter with the superseded error, cancels its timer, and leaves exactly the
\* new entry, whose waiter is incomplete, under that vulnId
C2_RegisterSupersedes ==
  [][\A v \in VulnIds :
       (MapHas(pending, v) /\ registerPendingRebuild(v, CveOf[v])) =>
         LET old == MapGet(pending, v)
             new == Len(handles) + 1
         IN /\ handles[old].promise = "pending"
            /\ handles'[old].promise = "rejected"
            /\ handles'[old].error = SupersededError
            /\ handles'[old].timer = "cleared"
            /\ EntriesOf(pending', v) = {[vulnId |-> v, eid |-> new]}
            /\ handles'[new].promise = "pending"
            /\ handles'[new].timer = "armed"]_vars

\* a superseded waiter exists next to the live entry that displaced it
C2_Witness ==
  \E e \in 1..Len(handles) :
    /\ handles[e].error = SupersededError
    /\ handles[e].timer = "cleared"
    /\ ~Stored(e)
    /\ \E x \in pending : x.vulnId = handles[e].vulnId /\ x.eid > e

\* C3: resolve on a stored entry returns true, fulfils the waiter with the
\* result and removes the entry; a resolve for the same vulnId right after it
\* returns false and changes neither store, waiters nor run state
C3_ResolveTwice ==
  [][\A v \in VulnIds, r \in CallbackResults :
       resolvePendingRebuild(v, r) =>
         /\ MapHas(pending, v) =>
              LET e == MapGet(pending, v)
              IN /\ lastOp'.found
                 /\ handles'[e].promise = "fulfilled"
                 /\ handles'[e].result = r
                 /\ ~MapHas(pending', v)
         /\ (lastOp = [op |-> "resolve", vulnId |-> v, found |-> TRUE]) =>
              /\ ~lastOp'.found
              /\ UNCHANGED <<pending, handles, removals>>
              /\ UNCHANGED <<engineVars, routeVars>>]_vars

\* a resolve has just found nothing for a vulnId whose latest entry was
\* removed by an earlier resolve
C3_Witness ==
  /\ lastOp.op = "resolve"
  /\ ~lastOp.found
  /\ Len(removals) > 0
  /\ removals[Len(removals)].cause = "resolve"
  /\ handles[removals[Len(removals)].eid].vulnId = lastOp.vulnId
  /\ handles[removals[Len(removals)].eid].promise = "fulfilled"

\* C4: when the expiry timer of an entry fires, the entry is still stored
\* (no resolve and no superseding register removed it); the firing rejects
\* its waiter with the timeout error and removes it, so the list no longer
\* contains its vulnId
C4_TimeoutOnlyIfStillPending ==
  [][\A e \in 1..Len(handles) :
       timeoutCallback(e) =>
         LET v == handles[e].vulnId
         IN /\ Stored(e)
            /\ RemovalsOf(e) = {}
            /\ handles[e].promise = "pending"
            /\ handles'[e].promise = "rejected"
            /\ handles'[e].error = TimeoutError(handles[e].cveId)
            /\ removals' = Append(removals, [eid |-> e, cause |-> "timeout", by |-> e])
            /\ \A x \in ListOf(pending', handles') : x.vulnId # v]_vars

\* a timer has fired and failed its waiter
C4_Witness ==
  \E e \in 1..Len(handles) :
    /\ handles[e].timer = "fired"
    /\ handles[e].promise = "rejected"
    /\ handles[e].error = TimeoutError(handles[e].cveId)
    /\ ~MapHas(pending, handles[e].vulnId)

\* C5: between store operations an entry is stored exactly while its waiter
\* is incomplete, and no waiter is completed more than once
C5_RemovalAndCompletionAtomic ==
  \A e \in 1..Len(handles) :
    /\ Stored(e) <=> handles[e].promise = "pending"
    /\ handles[e].settleCalls <= 1
    /\ (handles[e].settleCalls = 1) <=> (handles[e].promise # "pending")

\* waiters completed by a supersession, a resolve and a timeout, once each
C5_Witness ==
  \E e1, e2, e3 \in 1..Len(handles) :
    /\ handles[e1].error = SupersededError /\ handles[e1].settleCalls = 1
    /\ handles[e2].promise = "fulfilled" /\ handles[e2].settleCalls = 1
    /\ handles[e3].timer = "fired" /\ handles[e3].promise = "rejected"
    /\ handles[e3].settleCalls = 1
    /\ pending = {}

\* C6: every registered entry is eventually removed; it is removed once, by a
\* resolve, its timeout or a supersession, and an entry leaves the store in
\* no other step
C6_EveryEntryRemovedExactlyOnce ==
  /\ [](\A e \in 1..Len(handles) :
          /\ Cardinality(RemovalsOf(e)) = (IF Stored(e) THEN 0 ELSE 1)
          /\ \A i \in RemovalsOf(e) :
               removals[i].cause \in {"resolve", "timeout", "supersession"})
  /\ [][\A x \in pending \ pending' :
          /\ removals' = Append(removals, removals'[Len(removals')])
          /\ removals'[Len(removals')].eid = x.eid
          /\ lastOp'.op \in {"resolve", "timeout", "register"}
          /\ lastOp'.vulnId = x.vulnId]_vars
  /\ \A e \in 1..MaxRegistrations :
       (Len(handles) >= e) ~> (Len(handles) >= e /\ ~Stored(e) /\ RemovalsOf(e) # {})

\* entries removed in each of the three ways, none left
C6_Witness ==
  /\ pending = {}
  /\ Len(removals) = 3
  /\ {removals[i].cause : i \in 1..Len(removals)} = {"resolve", "timeout", "supersession"}
  /\ {removals[i].eid : i \in 1..Len(removals)} = 1..3

\* ------------------------------------------------------------------------
\* Properties of the verification stage and of the run
\* ------------------------------------------------------------------------
Ran(n) == \E i \in 1..Len(visited) : visited[i] = n

IsPrefix(p, q) == Len(p) <= Len(q) /\ \A i \in 1..Len(p) : p[i] = q[i]

\* C7: run on a scan payload, the verify stage sets rebuildVerified and sets
\* rebuildSuccessful exactly when the build succeeded and no finding carries
\* the target CVE id
C7_VerifyVerdict ==
  node = "tested" =>
    /\ state.rebuildVerified
    /\ state.rebuildScanResult \in ScanResults
    /\ state.rebuildSuccessful <=>
         (/\ state.rebuildScanResult.buildSuccess
          /\ \A c \in state.rebuildScanResult.vulnerabilities :
               c # state.vulnerability.cveId)

\* the verdict is positive although the scan still lists another CVE
C7_Witness ==
  /\ node = "tested"
  /\ state.rebuildSuccessful
  /\ state.rebuildScanResult.vulnerabilities # {}

\* C8: a verify stage that finds no scan payload leaves rebuildVerified and
\* rebuildSuccessful false and an error set, and the run ends there as failed
C8_VerifyWithoutPayload ==
  (/\ node \notin {"idle", "tested"}
   /\ Len(visited) > 0
   /\ visited[Len(visited)] = "verifyRebuildResult"
   /\ state.rebuildScanResult = NULL) =>
    /\ ~state.rebuildVerified
    /\ ~state.rebuildSuccessful
    /\ state.error # ""
    /\ state.status = "failed"
    /\ node = "__end__"

\* a run whose tag was created has ended in the verify stage without a payload
C8_Witness ==
  /\ node = "__end__"
  /\ visited[Len(visited)] = "verifyRebuildResult"
  /\ state.rebuildScanResult = NULL
  /\ state.tagName # ""
  /\ state.status = "failed"

ScenarioA == <<"classifyVuln", "searchRAG", "researchFix", "createPR", "storeInRAG">>

\* a code vulnerability, nothing retrieved, research produced patch content
ScenarioAHolds ==
  /\ node \notin {"idle", "tested"}
  /\ state.category = "code"
  /\ Ran("researchFix")
  /\ ~state.ragFixApplicable
  /\ state.patchContent # ""

PullRequestCreated ==
  \A i \in 1..Len(calls) :
    calls[i].api = "createPullRequest" => calls[i].outcome = "ok"

C10_ScenarioB ==
  (/\ node \notin {"idle", "tested"}
   /\ state.category = "container"
   /\ state.rebuildWouldFix = "true") =>
    /\ IsPrefix(visited, <<"classifyVuln", "tryRebuild", "createTagWorkflow",
                           "verifyRebuildResult", "storeInRAG">>)
    /\ ~Ran("searchRAG")
    /\ ~Ran("researchFix")
    /\ (/\ node = "__end__"
        /\ pipeline.status = "reported"
        /\ pipeline.result.buildSuccess
        /\ state.vulnerability.cveId \notin pipeline.result.vulnerabilities)
         => state.status = "resolved"

\* ------------------------------------------------------------------------
\* Properties of a run that fails or waits
\* ------------------------------------------------------------------------
Called(api) == \E i \in 1..Len(calls) : calls[i].api = api

TagDispatched ==
  \E i \in 1..Len(calls) :
    calls[i] = [api |-> "createApprovalTagWorkflow", outcome |-> "ok"]

\* C11 (scenario C): a container run whose tag dispatch succeeded and whose
\* callback never arrives ends only after the timeout of its wait has fired:
\* its status is failed, its error is the timeout error, and the correlation
\* store holds no entry for its vulnId
C11_ScenarioC ==
  (/\ node = "__end__"
   /\ state.category = "container"
   /\ TagDispatched
   /\ pipeline.status # "reported") =>
    /\ state.status = "failed"
    /\ state.error = TimeoutError(state.vulnerability.cveId).message
    /\ \E e \in 1..Len(handles) :
         /\ handles[e].vulnId = state.vulnerability.id
         /\ handles[e].timer = "fired"
         /\ handles[e].error = TimeoutError(state.vulnerability.cveId)
    /\ ~MapHas(pending, state.vulnerability.id)

\* C12 (fail-fast): once a stage has returned status failed, no further stage
\* runs, no further call goes to the action gateway or the fix store, and the
\* status stays failed with a non-empty error
C12_FailFast ==
  [][state.status = "failed" =>
       /\ visited' = visited
       /\ calls' = calls
       /\ state'.status = "failed"
       /\ state'.error # ""]_vars

\* the workflow order of RemediationStatus; failed and resolved are final
StatusRank(status) ==
  CASE status = "pending" -> 0
    [] status = "classifying" -> 1
    [] status = "rebuilding" -> 2
    [] status = "searching_rag" -> 3
    [] status = "researching" -> 4
    [] status \in {"creating_pr", "awaiting_approval"} -> 5
    [] status = "awaiting_rebuild" -> 6
    [] status = "verifying_rebuild" -> 7
    [] status \in {"failed", "resolved"} -> 8

\* C14: the status never regresses: every stage update moves it forward in
\* workflow order or leaves it, and once it is failed or resolved no later
\* update changes it
C14_StatusNeverRegresses ==
  [][/\ StatusRank(state'.status) >= StatusRank(state.status)
     /\ state.status \in {"failed", "resolved"} => state'.status = state.status]_vars

\* C19: a run in which create-pr was reached with no patch content ends with
\* status failed, and neither the pull-request call nor the fix-storage call
\* was made in it
C19_NoPatchNoExternalAction ==
  (/\ node = "__end__"
   /\ Ran("createPR")
   /\ state.patchContent = "") =>
    /\ state.status = "failed"
    /\ ~Called("createPullRequest")
    /\ ~Called("storeFix")

\* ------------------------------------------------------------------------
\* Properties of the stages
\* ------------------------------------------------------------------------
\* C13: whatever the vulnerability and whatever message the language model
\* gave back (JSON of any shape, or text that does not parse), the classify
\* stage completes without throwing and sets category to container or code
C13_ClassifyTotal ==
  (visited = <<"classifyVuln">> /\ response.kind # "throw") =>
    /\ node # "thrown"
    /\ state.category \in {"container", "code"}

\* classify has completed on the JSON text null, whose property read throws
\* inside the try block
C13_Witness ==
  /\ visited = <<"classifyVuln">>
  /\ response = [kind |-> "string", content |-> "null"]
  /\ node \in {"tryRebuild", "searchRAG"}

\* the stages named by the step log, in log order
LogNodes == [i \in 1..Len(state.stepLog) |-> state.stepLog[i].node]

\* the stages that returned an update, in execution order
Completed ==
  IF node = "thrown" THEN SubSeq(visited, 1, Len(visited) - 1) ELSE visited

\* C16: the step log is append-only: across every stage update the previous
\* log is a prefix of the new one, and its entries are in the order in which
\* their stages executed
C16_StepLogAppendOnly ==
  /\ [](LogNodes = Completed)
  /\ [][IsPrefix(state.stepLog, state'.stepLog)]_vars

\* a run has ended after five stages, each with its entry in the log
C16_Witness ==
  /\ node = "__end__"
  /\ Len(state.stepLog) = 5
  /\ LogNodes = visited

C18_ResolveReturn ==
  [][\A v \in VulnIds, r \in CallbackResults :
       resolvePendingRebuild(v, r) =>
         /\ lastOp'.found <=> MapHas(pending, v)
         /\ ~lastOp'.found => UNCHANGED <<pending, handles, removals>>]_vars

\* a callback for a vulnId that was never registered has been answered false
\* while another vulnId waits with its timer armed
C18_Witness ==
  /\ lastOp.op = "resolve"
  /\ ~lastOp.found
  /\ \A e \in 1..Len(handles) : handles[e].vulnId # lastOp.vulnId
  /\ \E x \in pending : handles[x.eid].timer = "armed" /\ handles[x.eid].promise = "pending"

C15_ModesAgree ==
  (served.invoke # NULL /\ served.stream # NULL) =>
    /\ served.stream.executed = served.invoke.executed
    /\ served.stream.result = served.invoke.result

\* ------------------------------------------------------------------------
\* Properties of callbacks and supersession
\* ------------------------------------------------------------------------
\* registration e was displaced by a later register for its vulnId
Superseded(e) ==
  \E i \in 1..Len(removals) : removals[i].eid = e /\ removals[i].cause = "supersession"

\* C21: once the wait of registration e has been superseded, the callback of
\* e's pipeline run (it carries e's vulnId) is a no-op: resolve answers false
\* and the newer wait for that vulnId stays stored and incomplete
C21_StaleCallbackDropped ==
  [][\A e \in 1..Len(handles), r \in CallbackResults :
       (Superseded(e) /\ resolvePendingRebuild(handles[e].vulnId, r)) =>
         /\ ~lastOp'.found
         /\ UNCHANGED <<pending, handles, removals>>]_vars

\* C22: the wait of a dispatched rebuild is registered before its callback
\* can reach resolve, so the callback of the run's own pipeline is never
\* answered as unknown
C22_RegisteredBeforeCallback ==
  pipeline.status = "reported" =>
    /\ lastOp.op = "resolve"
    /\ lastOp.vulnId = state.vulnerability.id
    /\ lastOp.found

\* C23: a supersession reaches the displaced waiter only: the register that
\* triggers it stores its own entry, whose waiter nobody has settled and whose
\* timer is armed, and it leaves every other waiter as it was
C23_SupersessionOnlyToDisplaced ==
  [][\A v \in VulnIds :
       (MapHas(pending, v) /\ registerPendingRebuild(v, CveOf[v])) =>
         LET old == MapGet(pending, v)
             new == Len(handles) + 1
         IN /\ Len(handles') = new
            /\ handles'[new] = NewHandle(v, CveOf[v])
            /\ MapGet(pending', v) = new
            /\ handles'[old].error = SupersededError
            /\ \A e \in 1..Len(handles) : e # old => handles'[e] = handles[e]]_vars

\* a waiter whose register displaced an earlier one has later been fulfilled
\* by resolve
C23_Witness ==
  \E e \in 1..Len(handles) :
    /\ Superseded(e)
    /\ \E n \in 1..Len(handles) :
         /\ n > e
         /\ handles[n].vulnId = handles[e].vulnId
         /\ handles[n].promise = "fulfilled"
         /\ \A k \in 1..Len(handles) : (e < k /\ k < n) => handles[k].vulnId # handles[e].vulnId

\* ------------------------------------------------------------------------
\* Properties of the fallbacks
\* ------------------------------------------------------------------------
\* the message is not JSON: JSON.parse throws on its text
Unparseable(r) == r.kind # "throw" /\ ~JSONParse(TextOf(r)).ok

\* C24 as stated: on an unparseable classification answer the category is
\* container exactly when the vulnerability has an image name and no file
\* path, whatever its source
C24_Fallback_Original ==
  (visited = <<"classifyVuln">> /\ Unparseable(response)) =>
    (state.category = "container"
       <=> (state.vulnerability.imageName # "" /\ state.vulnerability.filePath = ""))

\* C24: on an unparseable classification answer the category is container
\* exactly when the vulnerability comes from trivy, has an image name and no
\* file path, and code in every other case
C24_Fallback ==
  (visited = <<"classifyVuln">> /\ Unparseable(response)) =>
    /\ state.category \in {"container", "code"}
    /\ state.category = "container"
         <=> (/\ state.vulnerability.source = "trivy"
              /\ state.vulnerability.imageName # ""
              /\ state.vulnerability.filePath = "")

\* the fallback has classified as code a vulnerability with an image name and
\* no file path that another scanner reported
C24_Witness ==
  /\ visited = <<"classifyVuln">>
  /\ Unparseable(response)
  /\ state.vulnerability.source = "snyk"
  /\ state.vulnerability.imageName # ""
  /\ state.vulnerability.filePath = ""
  /\ state.category = "code"

\* C25: rebuild-check sets rebuildWouldFix to true only on an answer that
\* parses to an object whose rebuildWouldFix is the boolean true; on every
\* other answer it is false, and the run goes to retrieval, not to
\* tag-dispatch
C25_ExplicitConfirmationOnly ==
  (visited = <<"classifyVuln", "tryRebuild">> /\ response.kind # "throw") =>
    /\ state.rebuildWouldFix = "true"
         <=> response = [kind |-> "string", content |-> "{\"rebuildWouldFix\":true}"]
    /\ state.rebuildWouldFix # "true" =>
         (state.rebuildWouldFix = "false" /\ node = "searchRAG")
    /\ node = "createTagWorkflow" => state.rebuildWouldFix = "true"

\* rebuild-check has answered false to an object whose rebuildWouldFix is the
\* string "true", and the run is at retrieval
C25_Witness ==
  /\ visited = <<"classifyVuln", "tryRebuild">>
  /\ response = [kind |-> "string", content |-> "{\"rebuildWouldFix\":\"true\"}"]
  /\ state.rebuildWouldFix = "false"
  /\ node = "searchRAG"

\* ------------------------------------------------------------------------
\* Properties of routing
\* ------------------------------------------------------------------------
\* the two states agree on the fields node n has just produced
Agree(n, s1, s2) ==
  CASE n = "classifyVuln" -> s1.category = s2.category
    [] n = "tryRebuild" -> s1.rebuildWouldFix = s2.rebuildWouldFix
    [] n = "searchRAG" ->
         s1.category = s2.category /\ s1.ragFixApplicable = s2.ragFixApplicable

\* C26: routing depends on the decision fields only: a state routed after
\* classify, rebuild-check or retrieval goes where every other state goes
\* that agrees with it on category, on rebuildWouldFix, or on category and
\* ragFixApplicable respectively
C26_RoutingByDecisionFields ==
  node # "routing" =>
    \A s2 \in RouteStates :
      Agree(visited[1], state, s2) => Edge(visited[1], s2) = node

\* a code state that carries a failed status and patch content has been
\* routed after retrieval to create-pr on its applicable fix
C26_Witness ==
  /\ visited = <<"searchRAG">>
  /\ node = "createPR"
  /\ state.category = "code"
  /\ state.ragFixApplicable
  /\ state.status = "failed"
  /\ state.patchContent = "diff"
  /\ state.rebuildWouldFix = "true"

\* ------------------------------------------------------------------------
\* Properties of failing collaborators
\* ------------------------------------------------------------------------
\* a collaborator call of the run has failed: llm.invoke rejected (the node
\* rejects with it) or a call to the fix store or the action gateway threw
CollaboratorFailed ==
  \/ node = "thrown"
  \/ \E i \in 1..Len(calls) : calls[i].outcome = "throw"

\* C27: a run in which a collaborator call failed, in whatever stage, ends
\* with status failed, a non-empty error, and a failed entry in the step log
C27_CollaboratorFailureFails ==
  (node \in {"__end__", "thrown"} /\ CollaboratorFailed) =>
    /\ state.status = "failed"
    /\ state.error # ""
    /\ \E i \in 1..Len(state.stepLog) : state.stepLog[i].status = "failed"

\* ------------------------------------------------------------------------
\* Properties of one remediation request
\* ------------------------------------------------------------------------
\* no element occurs twice in the sequence
NoRepeat(seq) == \A i, j \in 1..Len(seq) : seq[i] = seq[j] => i = j

\* the apis called, in call order
ApisOf(cs) == [i \in 1..Len(cs) |-> cs[i].api]

\* C28: within one remediation request, by either route, each stage is
\* executed at most once and each external action is performed at most once
C28_NothingRepeated ==
  \A route \in {"invoke", "stream"} :
    served[route] # NULL =>
      /\ NoRepeat(served[route].executed)
      /\ NoRepeat(ApisOf(served[route].calls))

\* ------------------------------------------------------------------------
\* Properties of termination
\* ------------------------------------------------------------------------
\* the run is over: the graph reached END or a node rejected
RunOver == node \in {"__end__", "thrown"}

\* C29: a run never revisits a stage, makes at most one transition per stage
\* of the graph, and when it is over its status is resolved or failed
C29_Terminates ==
  /\ NoRepeat(visited)
  /\ Len(visited) <= 8
  /\ RunOver => state.status \in {"resolved", "failed"}

\* ------------------------------------------------------------------------
\* Properties of a run next to another vulnerability's wait
\* ------------------------------------------------------------------------
\* some stage of the run can execute
EngineStage ==
  \/ ClassifyVuln
  \/ TryRebuild
  \/ SearchRAG
  \/ ResearchFix
  \/ CreatePR
  \/ CreateTagWorkflow
  \/ VerifyRebuildResult
  \/ StoreInRAG

\* the step belongs to the run: a stage executed or its callback arrived
RunStepped == visited' # visited \/ pipeline' # pipeline

C32_ListPureRead ==
  [][listPendingRebuilds =>
       /\ UNCHANGED <<pending, handles, removals>>
       /\ \A v \in VulnIds :
            IF MapHas(pending, v)
            THEN {x \in lastOp'.returned : x.vulnId = v}
                   = {[vulnId |-> v, cveId |-> handles[MapGet(pending, v)].cveId]}
            ELSE {x \in lastOp'.returned : x.vulnId = v} = {}
       /\ \A x \in lastOp'.returned : x.vulnId \in VulnIds]_vars

\* list has returned one entry while another registration, since removed, is
\* not in the snapshot
C32_Witness ==
  /\ lastOp.op = "list"
  /\ Cardinality(lastOp.returned) = 1
  /\ Len(removals) >= 1
  /\ \E e \in 1..Len(handles) :
       ~Stored(e) /\ \A x \in lastOp.returned : x.vulnId # handles[e].vulnId

\* C34: in every reachable state of the store the armed timers are exactly
\* the timers of the stored entries, one per entry; resolve and supersession
\* have cleared the timer of the entry they removed, so every removal by
\* timeout was made by the removed entry's own timer and a timer never
\* removes or fails an entry registered later under the same vulnId
C34_ArmedTimersAreStoredEntries ==
  /\ \A e \in 1..Len(handles) : (handles[e].timer = "armed") <=> Stored(e)
  /\ \A v \in VulnIds :
       Cardinality({e \in 1..Len(handles) :
                      handles[e].vulnId = v /\ handles[e].timer = "armed"})
         = Cardinality(EntriesOf(pending, v))
  /\ \A i \in 1..Len(removals) :
       removals[i].cause = "timeout" => removals[i].by = removals[i].eid
  /\ \A e \in 1..Len(handles) :
       handles[e].error = TimeoutError(handles[e].cveId) => handles[e].timer = "fired"

\* an entry was superseded and its timer cancelled; the newer entry under
\* the same vulnId then expired by its own timer
C34_Witness ==
  \E e1, e2 \in 1..Len(handles) :
    /\ e1 < e2
    /\ handles[e1].vulnId = handles[e2].vulnId
    /\ Superseded(e1) /\ handles[e1].timer = "cleared"
    /\ handles[e2].timer = "fired"
    /\ \E i \in 1..Len(removals) :
         removals[i] = [eid |-> e2, cause |-> "timeout", by |-> e2]

\* C35: a register, a resolve or a timer firing for one vulnId leaves the
\* entry, the waiters and the timers of every other vulnId unchanged
C35_OtherVulnIdsUntouched ==
  [][\A v \in VulnIds :
       (\/ registerPendingRebuild(v, CveOf[v])
        \/ \E r \in CallbackResults : resolvePendingRebuild(v, r)
        \/ \E e \in 1..Len(handles) : handles[e].vulnId = v /\ timeoutCallback(e))
       => \A w \in VulnIds \ {v} :
            /\ EntriesOf(pending', w) = EntriesOf(pending, w)
            /\ \A e \in 1..Len(handles) :
                 handles[e].vulnId = w => handles'[e] = handles[e]
            /\ \A e \in 1..Len(handles') :
                 handles'[e].vulnId = w => e <= Len(handles)]_vars

\* one vulnId was registered, superseded and resolved while the entry of
\* the other vulnId stayed stored, pending and armed
C35_Witness ==
  \E e, e1, e2 \in 1..Len(handles) :
    /\ handles[e].vulnId # handles[e1].vulnId
    /\ handles[e1].vulnId = handles[e2].vulnId
    /\ e < e1 /\ e1 < e2
    /\ Stored(e) /\ handles[e].promise = "pending" /\ handles[e].timer = "armed"
    /\ Superseded(e1)
    /\ handles[e2].promise = "fulfilled"

\* C36: a waiter's outcome matches the cause of its entry's removal: it is
\* fulfilled exactly when a resolve removed the entry, and with the result
\* passed to that resolve; it carries the timeout error exactly when its own
\* timer removed the entry; it carries the superseded error exactly when a
\* later register for the same vulnId removed the entry
C36_OutcomeMatchesCause ==
  /\ [](\A e \in 1..Len(handles) :
          /\ (handles[e].promise = "fulfilled")
               <=> (\E i \in RemovalsOf(e) : removals[i].cause = "resolve")
          /\ (handles[e].promise = "rejected" /\ handles[e].error = TimeoutError(handles[e].cveId))
               <=> (\E i \in RemovalsOf(e) :
                      removals[i].cause = "timeout" /\ removals[i].by = e)
          /\ (handles[e].promise = "rejected" /\ handles[e].error = SupersededError)
               <=> (\E i \in RemovalsOf(e) : removals[i].cause = "supersession")
          /\ handles[e].promise = "rejected"
               => handles[e].error \in {SupersededError, TimeoutError(handles[e].cveId)})
  /\ [][\A e \in 1..Len(handles) :
          /\ (handles[e].promise = "pending" /\ handles'[e].promise = "fulfilled")
               => /\ lastOp'.op = "resolve" /\ lastOp'.vulnId = handles[e].vulnId
                  /\ resolvePendingRebuild(handles[e].vulnId, handles'[e].result)
                  /\ \A r \in CallbackResults :
                       resolvePendingRebuild(handles[e].vulnId, r) => handles'[e].result = r
          /\ (handles[e].promise = "pending" /\ handles'[e].error = SupersededError)
               => /\ lastOp'.op = "register" /\ lastOp'.vulnId = handles[e].vulnId
                  /\ Len(handles') = Len(handles) + 1
                  /\ handles'[Len(handles')].vulnId = handles[e].vulnId
          /\ (handles[e].promise = "pending"
                /\ handles'[e].error = TimeoutError(handles[e].cveId))
               => /\ lastOp'.op = "timeout" /\ handles[e].timer = "armed"
                  /\ handles'[e].timer = "fired"
          /\ handles[e].promise # "pending" => handles'[e] = handles[e]]_vars

\* three waiters, one with each outcome: fulfilled with the failed-build
\* payload, failed by its timer, failed by supersession
C36_Witness ==
  \E e1, e2, e3 \in 1..Len(handles) :
    /\ handles[e1].promise = "fulfilled"
    /\ handles[e1].result = [buildSuccess |-> FALSE, vulnerabilities |-> {}]
    /\ handles[e2].error = TimeoutError(handles[e2].cveId)
    /\ handles[e3].error = SupersededError
    /\ \E i \in RemovalsOf(e1) : removals[i].cause = "resolve"

\* ------------------------------------------------------------------------
\* Properties of the retrieval stage
\* ------------------------------------------------------------------------
\* the retrieval collaborator was just called and threw
RetrievalJustFailed ==
  /\ Len(calls') = Len(calls) + 1
  /\ calls'[Len(calls')] = [api |-> "searchFixes", outcome |-> "throw"]

\* C37: when the retrieval collaborator fails, the run does not fail: the
\* stage yields no fixes and ragFixApplicable = false, the status is
\* searching_rag with no error added, the run goes on to research, and the
\* state is the one an empty retrieval result would have produced
C37_RetrievalFailureIsEmptyResult ==
  [][RetrievalJustFailed =>
       /\ node' = "researchFix"
       /\ state'.ragResults = 0
       /\ state'.ragFixApplicable = FALSE
       /\ state'.status = "searching_rag"
       /\ state'.error = state.error
       /\ state' = Reduce(state, searchRAG(state, 0))
       /\ node' = AfterSearchRAG(Reduce(state, searchRAG(state, 0)))]_vars

\* retrieval failed and the run then researched a fix
C37_Witness ==
  /\ \E i \in 1..Len(calls) : calls[i] = [api |-> "searchFixes", outcome |-> "throw"]
  /\ Ran("searchRAG") /\ Ran("researchFix")
  /\ state.ragResults = 0 /\ ~state.ragFixApplicable
  /\ node # "thrown"

\* ------------------------------------------------------------------------
\* Properties of the tag stage and the wait
\* ------------------------------------------------------------------------
\* the tag stage ran and its tag creation or its workflow dispatch failed
TagActionFailed ==
  \E i \in 1..Len(calls) :
    /\ calls[i].api = "createApprovalTagWorkflow"
    /\ calls[i].outcome \in {"throw", "dispatchFailed"}

\* C31: a wait is stored for the run's vulnId only if the tag and the
\* dispatch succeeded; when the tag creation or the dispatch failed no wait
\* exists for the vulnId, no callback is expected, and the run is not
\* suspended: it is over or its next stage can execute
C31_NoWaitWithoutDispatch ==
  /\ MapHas(pending, state.vulnerability.id) => TagDispatched
  /\ TagActionFailed =>
       /\ ~MapHas(pending, state.vulnerability.id)
       /\ \A e \in 1..Len(handles) : handles[e].vulnId # state.vulnerability.id
       /\ pipeline.status = "none"
       /\ RunOver \/ ENABLED EngineStage

\* the dispatch failed behind a created tag, and the run went on through
\* verification to its end without a wait
C31_Witness ==
  /\ \E i \in 1..Len(calls) :
       calls[i] = [api |-> "createApprovalTagWorkflow", outcome |-> "dispatchFailed"]
  /\ Ran("verifyRebuildResult")
  /\ node = "__end__"
  /\ pending = {}

\* ------------------------------------------------------------------------
\* Properties of the event stream
\* ------------------------------------------------------------------------
\* the positions of the terminal events in a sequence of events
Terminals(events) == {i \in 1..Len(events) : events[i].type \in {"done", "error"}}

\* C38: a stream served for a stored vulnerability holds exactly one done
\* or error event, which is its last event; every event before it is a step
\* or state event, one state event per node the streamed run completed; and
\* done is sent only if neither the streamed run nor the run that fetches
\* the final state threw
C38_OneTerminalEventLast ==
  served.stream # NULL =>
    LET events == served.stream.events IN
    /\ Terminals(events) = {Len(events)}
    /\ \A i \in 1..(Len(events) - 1) : events[i].type \in {"step", "state"}
    /\ Cardinality({i \in 1..Len(events) : events[i].type = "state"})
         = Len(graphStream(state.vulnerability, collaborators).updates)
    /\ events[Len(events)].type = "done" =>
         /\ ~graphStream(state.vulnerability, collaborators).threw
         /\ ~served.stream.threw.stream
         /\ ~served.stream.threw.invoke
         /\ served.stream.result # NULL
    /\ events[Len(events)].type = "error" =>
         served.stream.threw.stream \/ served.stream.threw.invoke

\* the streamed run completed and sent its step and state events, the run
\* that fetches the final state then threw, and the stream ended with error
C38_Witness ==
  /\ served.stream # NULL
  /\ ~served.stream.threw.stream
  /\ served.stream.threw.invoke
  /\ Len(served.stream.events) >= 5
  /\ served.stream.events[Len(served.stream.events)].type = "error"
  /\ served.stream.events[Len(served.stream.events) - 1].type = "state"

\* ------------------------------------------------------------------------
\* Properties of the stored vulnerability records
\* ------------------------------------------------------------------------
\* C33: a stored vulnerability record never changes: in every step that is
\* not an ingestion naming the record's own id (reading the record, listing,
\* starting a remediation run, ingesting a record under another id) each
\* record stored before the step is stored after it with every field equal
C33_RecordImmutable ==
  [][\A x \in vulnerabilities :
       \/ x \in vulnerabilities'
       \/ PostVulnerability /\ \E y \in vulnerabilities' \ vulnerabilities : y.id = x.id]_vars

====
